---- MODULE Spec2Model ----
(***************************************************************************)
(* Model of crates/utils/src/error.rs (LemmyError, LemmyErrorType and the  *)
(* actix ResponseError implementation) and of                              *)
(* crates/db_schema/src/aggregates/community_aggregates.rs                 *)
(* (CommunityAggregates::read and the rows it reads).                      *)
(*                                                                         *)
(* Text is a sequence of one-character strings, so that the snake_case     *)
(* renaming of the wire tag and the Display rendering are computed, not    *)
(* assumed.                                                                *)
(***************************************************************************)
EXTENDS Integers, Sequences, FiniteSets, TLC

\* ------------------------------------------------------------------------
\* Bounds of the model
\* ------------------------------------------------------------------------
\* spans a context can be captured in
MaxSpan == 2
\* with_type calls on one LemmyError
MaxWithType == 2
\* posts and comments ever inserted
MaxPost == 1
MaxComment == 2

\* test_crud's fixture: two persons and two communities
MaxPerson == 2
MaxCommunity == 2

\* ------------------------------------------------------------------------
\* Characters
\* ------------------------------------------------------------------------
UpperChars ==
  <<"A","B","C","D","E","F","G","H","I","J","K","L","M",
    "N","O","P","Q","R","S","T","U","V","W","X","Y","Z">>

LowerChars ==
  <<"a","b","c","d","e","f","g","h","i","j","k","l","m",
    "n","o","p","q","r","s","t","u","v","w","x","y","z">>

is_uppercase(ch) == \E i \in 1..Len(UpperChars) : UpperChars[i] = ch

to_ascii_lowercase(ch) ==
  IF is_uppercase(ch)
    THEN LowerChars[CHOOSE i \in 1..Len(UpperChars) : UpperChars[i] = ch]
    ELSE ch

\* serde's rename_all = "snake_case" applied to a variant name: an underscore
\* before every upper-case character but the first, everything lower-cased.
RECURSIVE snake_case_from(_, _)
snake_case_from(variant, i) ==
  IF i > Len(variant) THEN <<>>
  ELSE (IF i > 1 /\ is_uppercase(variant[i]) THEN <<"_">> ELSE <<>>)
       \o <<to_ascii_lowercase(variant[i])>>
       \o snake_case_from(variant, i + 1)

\* mutant: rename_all = "lowercase", no underscores
RECURSIVE lowercase_from(_, _)
lowercase_from(variant, i) ==
  IF i > Len(variant) THEN <<>>
  ELSE <<to_ascii_lowercase(variant[i])>> \o lowercase_from(variant, i + 1)

snake_case_lowercase(variant) == lowercase_from(variant, 1)

snake_case(variant) == snake_case_from(variant, 1)

\* ------------------------------------------------------------------------
\* LemmyErrorType: the variants the model draws from.  A variant is its
\* declared name and an optional String payload.
\* ------------------------------------------------------------------------
NoPayload == [some |-> FALSE, v |-> <<>>]
Payload(s) == [some |-> TRUE, v |-> s]

Payloads == { <<"r","e","a","s","o","n">>, <<>> }

Banned == [name |-> <<"B","a","n","n","e","d">>, payload |-> NoPayload]

CouldntFindCommunity ==
  [name |-> <<"C","o","u","l","d","n","t","F","i","n","d",
              "C","o","m","m","u","n","i","t","y">>,
   payload |-> NoPayload]

RegistrationDenied(s) ==
  [name |-> <<"R","e","g","i","s","t","r","a","t","i","o","n",
              "D","e","n","i","e","d">>,
   payload |-> Payload(s)]

LemmyErrorType ==
  {Banned, CouldntFindCommunity}
    \cup {RegistrationDenied(s) : s \in Payloads}

\* #[derive(Display)]: the variant's name; a payload is not rendered.
Display(error_type) == error_type.name

\* #[serde(tag = "error", content = "message", rename_all = "snake_case")]:
\* the JSON object as its ordered list of <<key, value>> members.
Serialize(error_type) ==
  <<  <<"error", snake_case(error_type.name)>>  >>
    \o (IF error_type.payload.some
          THEN << <<"message", error_type.payload.v>> >>
          ELSE <<>>)

\* Option<LemmyErrorType>
NoKind == [name |-> <<>>, payload |-> NoPayload]
None == [some |-> FALSE, v |-> NoKind]
Some(error_type) == [some |-> TRUE, v |-> error_type]

\* ------------------------------------------------------------------------
\* Causes: what anyhow::Error holds.  ty is the concrete type a downcast
\* sees, variant the enum variant of that type, msg its Display text.
\* ------------------------------------------------------------------------
DieselNotFound ==
  [ty |-> "diesel::result::Error", variant |-> "NotFound",
   msg |-> <<"R","e","c","o","r","d"," ","n","o","t"," ","f","o","u","n","d">>]

\* DatabaseError carries the text the database reported
DieselDatabaseError ==
  [ty |-> "diesel::result::Error", variant |-> "DatabaseError",
   msg |-> <<"d","u","p","l","i","c","a","t","e"," ","k","e","y">>]

IoNotFound ==
  [ty |-> "std::io::Error", variant |-> "NotFound",
   msg |-> <<"e","n","t","i","t","y"," ","n","o","t"," ","f","o","u","n","d">>]

\* anyhow!("{}", text): an ad-hoc message error
MessageError(text) ==
  [ty |-> "anyhow::MessageError", variant |-> "", msg |-> text]

Causes ==
  {DieselNotFound, DieselDatabaseError, IoNotFound,
   MessageError(DieselNotFound.msg)}

Spans == 1..MaxSpan

\* ------------------------------------------------------------------------
\* LemmyError
\* ------------------------------------------------------------------------
\* mutant: the given error type is dropped
from_error_and_type_untyped(error, error_type, span) ==
  [error_type |-> None, inner |-> error, context |-> span]

from_error_and_type(error, error_type, span) ==
  [error_type |-> Some(error_type), inner |-> error, context |-> span]

\* mutant: an error type already present is kept
with_type_keep_first(self, error_type) ==
  IF self.error_type.some
    THEN self
    ELSE [self EXCEPT !.error_type = Some(error_type)]

\* mutant: the error type becomes the cause as well, as in From<LemmyErrorType>
with_type_rewrap(self, error_type) ==
  [error_type |-> Some(error_type),
   inner |-> MessageError(Display(error_type)),
   context |-> self.context]

with_type(self, error_type) ==
  [self EXCEPT !.error_type = Some(error_type)]

From(t, span) ==
  [error_type |-> None, inner |-> t, context |-> span]

\* mutant: anyhow!("{:?}", error_type), the Debug text with the payload
From_LemmyErrorType_debug(error_type, span) ==
  [error_type |-> Some(error_type),
   inner |-> MessageError(
     IF error_type.payload.some
       THEN error_type.name \o <<"(", "\"">> \o error_type.payload.v
              \o <<"\"", ")">>
       ELSE error_type.name),
   context |-> span]

From_LemmyErrorType(error_type, span) ==
  [error_type |-> Some(error_type),
   inner |-> MessageError(Display(error_type)),
   context |-> span]

NOT_FOUND == 404
BAD_REQUEST == 400

\* mutant: any NotFound variant counts, whatever the type of the cause
status_code_any_not_found(self) ==
  IF self.inner.variant = "NotFound" THEN NOT_FOUND ELSE BAD_REQUEST

status_code(self) ==
  IF self.inner.ty = "diesel::result::Error" /\ self.inner.variant = "NotFound"
    THEN NOT_FOUND
    ELSE BAD_REQUEST

\* mutant: the plain-text body is left out
error_response_no_body(self) ==
  IF self.error_type.some
    THEN [status |-> status_code(self),
          content_type |-> "application/json",
          json |-> Serialize(self.error_type.v),
          text |-> <<>>]
    ELSE [status |-> status_code(self),
          content_type |-> "text/plain",
          json |-> <<>>,
          text |-> <<>>]

\* mutant: the plain-text body is self.to_string(), the Display text of the
\* LemmyError, which ends with the captured context
error_response_display(self) ==
  IF self.error_type.some
    THEN [status |-> status_code(self),
          content_type |-> "application/json",
          json |-> Serialize(self.error_type.v),
          text |-> <<>>]
    ELSE [status |-> status_code(self),
          content_type |-> "text/plain",
          json |-> <<>>,
          text |-> self.inner.msg \o <<"\n">>
                     \o [i \in 1..self.context |-> "#"]]

error_response(self) ==
  IF self.error_type.some
    THEN [status |-> status_code(self),
          content_type |-> "application/json",
          json |-> Serialize(self.error_type.v),
          text |-> <<>>]
    ELSE [status |-> status_code(self),
          content_type |-> "text/plain",
          json |-> <<>>,
          text |-> self.inner.msg]

\* ------------------------------------------------------------------------
\* The database: the tables CommunityAggregates::read and its test touch
\* ------------------------------------------------------------------------
PersonIds == 1..MaxPerson
CommunityIds == 1..MaxCommunity
PostIds == 1..MaxPost
CommentIds == 1..MaxComment

VARIABLES
  person,                \* ids of the person rows
  community,             \* ids of the community rows
  community_follower,    \* rows [community_id, person_id]
  post,                  \* rows [id, community_id, creator_id]
  comment,               \* rows [id, post_id, creator_id]
  community_aggregates,  \* rows [community_id, subscribers, posts, comments]
  serial,                \* per table, the last id its id sequence gave out
  read_result,           \* Result of the accessor call just made, if any
  read_arg,              \* the community id that call was given
  err,                   \* the LemmyError of the request, if one was built
  pc,                    \* "idle", "built" (a LemmyError exists), "responded"
  response,              \* the HttpResponse built from err, once responded
  built_by,              \* the constructor call that built err
  orig,                  \* err as the constructor returned it
  applied                \* the error types given to with_type since, in order

dbvars == <<person, community, community_follower, post, comment,
            community_aggregates, serial>>
errvars == <<err, pc, response, built_by, orig, applied>>
vars == <<person, community, community_follower, post, comment,
          community_aggregates, serial, read_result, read_arg,
          err, pc, response, built_by, orig, applied>>

\* Result<CommunityAggregates, diesel::result::Error>, and no call made
NoRow == [community_id |-> 0, subscribers |-> 0, posts |-> 0, comments |-> 0]
NoCause == [ty |-> "", variant |-> "", msg |-> <<>>]
NoResult == [tag |-> "None", row |-> NoRow, err |-> NoCause]
Ok(row) == [tag |-> "Ok", row |-> row, err |-> NoCause]
Err(e) == [tag |-> "Err", row |-> NoRow, err |-> e]

\* mutant: the filter is left out, the first row of the table is returned
CommunityAggregates_read_unfiltered(table, community_id) ==
  IF table # {}
    THEN Ok(CHOOSE r \in table :
              \A q \in table : r.community_id <= q.community_id)
    ELSE Err(DieselNotFound)

\* mutant: a missing row is read as a row of zeros
CommunityAggregates_read_or_default(table, community_id) ==
  IF \E r \in table : r.community_id = community_id
    THEN Ok(CHOOSE r \in table : r.community_id = community_id)
    ELSE Ok([community_id |-> community_id,
             subscribers |-> 0, posts |-> 0, comments |-> 0])

\* community_aggregates::table.filter(community_id.eq(id)).first(conn)
CommunityAggregates_read(table, community_id) ==
  IF \E r \in table : r.community_id = community_id
    THEN Ok(CHOOSE r \in table : r.community_id = community_id)
    ELSE Err(DieselNotFound)

\* The counter maintenance the persistence layer runs with each row change:
\* one row per community, created with it, and each counter moved by the
\* number of dependent rows the statement inserted or deleted.
AggregatesOnCommunityInsert(table, community_id) ==
  table \cup {[community_id |-> community_id,
               subscribers |-> 0, posts |-> 0, comments |-> 0]}

AggregatesOnCommunityDelete(table, community_id) ==
  {r \in table : r.community_id # community_id}

PostsIn(posts, community_id) ==
  {p \in posts : p.community_id = community_id}

CommentsIn(comments, posts, community_id) ==
  {c \in comments :
     \E p \in PostsIn(posts, community_id) : p.id = c.post_id}

FollowersOf(followers, community_id) ==
  {f \in followers : f.community_id = community_id}

\* rows inserted: counters go up by their number per community
AggregatesOnInsert(table, followers, posts, comments, allposts) ==
  {[r EXCEPT
      !.subscribers = @ + Cardinality(FollowersOf(followers, r.community_id)),
      !.posts = @ + Cardinality(PostsIn(posts, r.community_id)),
      !.comments = @ + Cardinality(CommentsIn(comments, allposts, r.community_id))]
   : r \in table}

\* rows deleted: counters go down by their number per community
AggregatesOnDelete(table, followers, posts, comments, allposts) ==
  {[r EXCEPT
      !.subscribers = @ - Cardinality(FollowersOf(followers, r.community_id)),
      !.posts = @ - Cardinality(PostsIn(posts, r.community_id)),
      !.comments = @ - Cardinality(CommentsIn(comments, allposts, r.community_id))]
   : r \in table}

\* serial ids: every insert takes the next value, none is given out twice
NextId(last) == last + 1

Person_create ==
  /\ NextId(serial.person) \in PersonIds
  /\ person' = person \cup {NextId(serial.person)}
  /\ serial' = [serial EXCEPT !.person = NextId(@)]
  /\ read_result' = NoResult
  /\ read_arg' = 0
  /\ UNCHANGED <<community, community_follower, post, comment,
                 community_aggregates>>
  /\ UNCHANGED errvars

Community_create ==
  /\ NextId(serial.community) \in CommunityIds
  /\ community' = community \cup {NextId(serial.community)}
  /\ community_aggregates' =
       AggregatesOnCommunityInsert(community_aggregates,
                                   NextId(serial.community))
  /\ serial' = [serial EXCEPT !.community = NextId(@)]
  /\ read_result' = NoResult
  /\ read_arg' = 0
  /\ UNCHANGED <<person, community_follower, post, comment>>
  /\ UNCHANGED errvars

\* insert ... on conflict (community_id, person_id) do update
CommunityFollower_follow(c, p) ==
  /\ c \in community
  /\ p \in person
  /\ LET row == [community_id |-> c, person_id |-> p]
         inserted == {row} \ community_follower
     IN /\ community_follower' = community_follower \cup {row}
        /\ community_aggregates' =
             AggregatesOnInsert(community_aggregates, inserted, {}, {}, post)
  /\ read_result' = NoResult
  /\ read_arg' = 0
  /\ UNCHANGED <<person, community, post, comment, serial>>
  /\ UNCHANGED errvars

CommunityFollower_unfollow(c, p) ==
  /\ LET row == [community_id |-> c, person_id |-> p]
         deleted == {row} \cap community_follower
     IN /\ community_follower' = community_follower \ {row}
        /\ community_aggregates' =
             AggregatesOnDelete(community_aggregates, deleted, {}, {}, post)
  /\ read_result' = NoResult
  /\ read_arg' = 0
  /\ UNCHANGED <<person, community, post, comment, serial>>
  /\ UNCHANGED errvars

Post_create(creator, c) ==
  /\ creator \in person
  /\ c \in community
  /\ NextId(serial.post) \in PostIds
  /\ LET row == [id |-> NextId(serial.post),
                 community_id |-> c, creator_id |-> creator]
     IN /\ post' = post \cup {row}
        /\ serial' = [serial EXCEPT !.post = NextId(@)]
        /\ community_aggregates' =
             AggregatesOnInsert(community_aggregates, {}, {row}, {}, post')
  /\ read_result' = NoResult
  /\ read_arg' = 0
  /\ UNCHANGED <<person, community, community_follower, comment>>
  /\ UNCHANGED errvars

Comment_create(creator, post_id) ==
  /\ creator \in person
  /\ \E p \in post : p.id = post_id
  /\ NextId(serial.comment) \in CommentIds
  /\ LET row == [id |-> NextId(serial.comment),
                 post_id |-> post_id, creator_id |-> creator]
     IN /\ comment' = comment \cup {row}
        /\ serial' = [serial EXCEPT !.comment = NextId(@)]
        /\ community_aggregates' =
             AggregatesOnInsert(community_aggregates, {}, {}, {row}, post)
  /\ read_result' = NoResult
  /\ read_arg' = 0
  /\ UNCHANGED <<person, community, community_follower, post>>
  /\ UNCHANGED errvars

\* the post's comments go with it
Post_delete(post_id) ==
  /\ LET posts == {p \in post : p.id = post_id}
         comments == {c \in comment : c.post_id = post_id}
     IN /\ post' = post \ posts
        /\ comment' = comment \ comments
        /\ community_aggregates' =
             AggregatesOnDelete(community_aggregates, {}, posts, comments, post)
  /\ read_result' = NoResult
  /\ read_arg' = 0
  /\ UNCHANGED <<person, community, community_follower, serial>>
  /\ UNCHANGED errvars

\* the person's follows, posts (with their comments) and comments go with it
Person_delete(person_id) ==
  /\ LET followers == {f \in community_follower : f.person_id = person_id}
         posts == {p \in post : p.creator_id = person_id}
         comments == {c \in comment :
                        \/ c.creator_id = person_id
                        \/ \E p \in posts : p.id = c.post_id}
     IN /\ person' = person \ {person_id}
        /\ community_follower' = community_follower \ followers
        /\ post' = post \ posts
        /\ comment' = comment \ comments
        /\ community_aggregates' =
             AggregatesOnDelete(community_aggregates,
                                followers, posts, comments, post)
  /\ read_result' = NoResult
  /\ read_arg' = 0
  /\ UNCHANGED <<community, serial>>
  /\ UNCHANGED errvars

\* the community's follows, posts, comments and aggregates row go with it
Community_delete(c) ==
  /\ LET posts == PostsIn(post, c)
     IN /\ community' = community \ {c}
        /\ community_follower' =
             community_follower \ FollowersOf(community_follower, c)
        /\ post' = post \ posts
        /\ comment' = comment \ CommentsIn(comment, post, c)
        /\ community_aggregates' =
             AggregatesOnCommunityDelete(community_aggregates, c)
  /\ read_result' = NoResult
  /\ read_arg' = 0
  /\ UNCHANGED <<person, serial>>
  /\ UNCHANGED errvars

Read(c) ==
  /\ read_result' = CommunityAggregates_read(community_aggregates, c)
  /\ read_arg' = c
  /\ UNCHANGED dbvars
  /\ UNCHANGED errvars

\* ------------------------------------------------------------------------
\* A request: a LemmyError is built, possibly re-typed, and answered
\* ------------------------------------------------------------------------
NoError == [error_type |-> None, inner |-> NoCause, context |-> 0]
NoResponse == [status |-> 0, content_type |-> "", json |-> <<>>, text |-> <<>>]

NoCall == [ctor |-> "none", error_type |-> None, cause |-> NoCause,
           span |-> 0, accessor |-> FALSE]
Call(ctor, error_type, cause, span, accessor) ==
  [ctor |-> ctor, error_type |-> error_type, cause |-> cause,
   span |-> span, accessor |-> accessor]

Built(e, call) ==
  /\ err' = e
  /\ orig' = e
  /\ built_by' = call
  /\ applied' = <<>>
  /\ pc' = "built"
  /\ response' = NoResponse

\* LemmyError::from(t) for any error t
From_error(t, span) ==
  /\ Built(From(t, span), Call("from", None, t, span, FALSE))
  /\ UNCHANGED dbvars
  /\ UNCHANGED <<read_result, read_arg>>

\* CommunityAggregates::read(conn, id)? inside a LemmyResult function
From_read_error(span) ==
  /\ read_result.tag = "Err"
  /\ Built(From(read_result.err, span),
           Call("from", None, read_result.err, span, TRUE))
  /\ read_result' = NoResult
  /\ read_arg' = 0
  /\ UNCHANGED dbvars

From_error_and_type(error, error_type, span) ==
  /\ Built(from_error_and_type(error, error_type, span),
           Call("from_error_and_type", Some(error_type), error, span, FALSE))
  /\ UNCHANGED dbvars
  /\ UNCHANGED <<read_result, read_arg>>

\* LemmyError::from(error_type)
From_error_type(error_type, span) ==
  /\ Built(From_LemmyErrorType(error_type, span),
           Call("from_type", Some(error_type), NoCause, span, FALSE))
  /\ UNCHANGED dbvars
  /\ UNCHANGED <<read_result, read_arg>>

With_type(error_type) ==
  /\ pc = "built"
  /\ Len(applied) < MaxWithType
  /\ err' = with_type(err, error_type)
  /\ applied' = Append(applied, error_type)
  /\ UNCHANGED <<pc, response, built_by, orig>>
  /\ UNCHANGED dbvars
  /\ UNCHANGED <<read_result, read_arg>>

\* the framework answers the request from the error the handler returned
Respond ==
  /\ pc = "built"
  /\ response' = error_response(err)
  /\ pc' = "responded"
  /\ UNCHANGED <<err, built_by, orig, applied>>
  /\ UNCHANGED dbvars
  /\ UNCHANGED <<read_result, read_arg>>

Init ==
  /\ person = {}
  /\ community = {}
  /\ community_follower = {}
  /\ post = {}
  /\ comment = {}
  /\ community_aggregates = {}
  /\ serial = [person |-> 0, community |-> 0, post |-> 0, comment |-> 0]
  /\ read_result = NoResult
  /\ read_arg = 0
  /\ err = NoError
  /\ pc = "idle"
  /\ response = NoResponse
  /\ built_by = NoCall
  /\ orig = NoError
  /\ applied = <<>>

\* the error container, fed by arbitrary causes and by the accessor
Next ==
  \/ \E t \in Causes, span \in Spans : From_error(t, span)
  \/ \E span \in Spans : From_read_error(span)
  \/ \E e \in Causes, k \in LemmyErrorType, span \in Spans :
       From_error_and_type(e, k, span)
  \/ \E k \in LemmyErrorType, span \in Spans : From_error_type(k, span)
  \/ \E k \in LemmyErrorType : With_type(k)
  \/ Respond
  \/ \E c \in CommunityIds : Read(c)

Spec == Init /\ [][Next]_vars

\* the accessor over a database whose rows come and go
NextAgg ==
  \/ Person_create
  \/ Community_create
  \/ \E c \in CommunityIds, p \in PersonIds : CommunityFollower_follow(c, p)
  \/ \E c \in CommunityIds, p \in PersonIds : CommunityFollower_unfollow(c, p)
  \/ \E p \in PersonIds, c \in CommunityIds : Post_create(p, c)
  \/ \E p \in PersonIds, i \in PostIds : Comment_create(p, i)
  \/ \E i \in PostIds : Post_delete(i)
  \/ \E p \in PersonIds : Person_delete(p)
  \/ \E c \in CommunityIds : Community_delete(c)
  \/ \E c \in CommunityIds : Read(c)

SpecAgg == Init /\ [][NextAgg]_vars

\* ------------------------------------------------------------------------
\* Properties
\* ------------------------------------------------------------------------
Reason == <<"r","e","a","s","o","n">>

\* the wire tags as the clients and the translation catalog spell them
WireTag(error_type) ==
  CASE error_type.name = Banned.name -> <<"b","a","n","n","e","d">>
    [] error_type.name = CouldntFindCommunity.name ->
         <<"c","o","u","l","d","n","t","_","f","i","n","d","_",
           "c","o","m","m","u","n","i","t","y">>
    [] error_type.name = RegistrationDenied(Reason).name ->
         <<"r","e","g","i","s","t","r","a","t","i","o","n","_",
           "d","e","n","i","e","d">>

Status(cause) == IF cause = DieselNotFound THEN NOT_FOUND ELSE BAD_REQUEST

\* C1: whichever constructor built the LemmyError and whatever its error
\* type (None or any variant), status_code is NOT_FOUND exactly when the
\* cause is diesel's NotFound and BAD_REQUEST in every other case; the error
\* type has no influence on the status.
C1_StatusFollowsCause ==
  /\ pc # "idle" =>
       /\ status_code(err) = NOT_FOUND <=> err.inner = DieselNotFound
       /\ status_code(err) # NOT_FOUND => status_code(err) = BAD_REQUEST
       /\ \A k \in LemmyErrorType :
            status_code(with_type(err, k)) = Status(err.inner)
  /\ pc = "responded" => response.status = Status(err.inner)

C1_Witness ==
  /\ pc = "responded"
  /\ built_by.ctor = "from_error_and_type"
  /\ err.error_type = Some(Banned)
  /\ err.inner = DieselNotFound
  /\ response.status = NOT_FOUND

\* C2: when the error type is present the response body is the serialized
\* error type: a JSON object whose "error" member is the variant's
\* snake_case tag and which has a "message" member exactly when the variant
\* carries a payload, holding that payload.
C2_BodyIsSerializedKind ==
  (pc = "responded" /\ err.error_type.some) =>
    LET k == err.error_type.v IN
      /\ response.content_type = "application/json"
      /\ response.text = <<>>
      /\ Len(response.json) = (IF k.payload.some THEN 2 ELSE 1)
      /\ response.json[1] = <<"error", WireTag(k)>>
      /\ k.payload.some => response.json[2] = <<"message", k.payload.v>>

C2_Witness ==
  /\ pc = "responded"
  /\ built_by.ctor = "from_type"
  /\ err.error_type = Some(RegistrationDenied(Reason))
  /\ response.json =
       << <<"error", <<"r","e","g","i","s","t","r","a","t","i","o","n","_",
                       "d","e","n","i","e","d">> >>,
          <<"message", Reason>> >>

\* C3: after with_type(K1) and then with_type(K2) the error type is K2
\* alone, the response body is the serialization of K2, and the cause and
\* the context are those the constructor set, also for a LemmyError built
\* by the blanket conversion.
C3_WithTypeTwice ==
  (pc # "idle" /\ Len(applied) >= 2) =>
    LET k2 == applied[Len(applied)] IN
      /\ err.error_type = Some(k2)
      /\ err.inner = orig.inner
      /\ err.context = orig.context
      /\ orig.context = built_by.span
      /\ pc = "responded" =>
           /\ response.content_type = "application/json"
           /\ response.json = Serialize(k2)

C3_Witness ==
  /\ pc = "responded"
  /\ built_by.ctor = "from"
  /\ applied = <<RegistrationDenied(Reason), Banned>>
  /\ err.inner = IoNotFound
  /\ response.json = << <<"error", <<"b","a","n","n","e","d">> >> >>

\* the counters the live rows of a community amount to
LiveCounts(c) ==
  [community_id |-> c,
   subscribers |-> Cardinality({f \in community_follower : f.community_id = c}),
   posts |-> Cardinality({p \in post : p.community_id = c}),
   comments |-> Cardinality({m \in comment :
                   \E p \in post : p.id = m.post_id /\ p.community_id = c})]

\* C4: after any sequence of follow, unfollow, post and comment creation,
\* post deletion and person deletion, a read of a community's aggregates
\* returns the number of its live follower rows, of its live posts and of
\* the live comments on its posts; a community without related rows reads
\* as zeros, and the rows of other communities play no part.
C4_ReadReturnsLiveCounts ==
  /\ \A c \in community :
       CommunityAggregates_read(community_aggregates, c) = Ok(LiveCounts(c))
  /\ read_result.tag = "Ok" => read_result.row = LiveCounts(read_arg)

C4_Witness ==
  /\ read_arg = 1
  /\ read_result = Ok([community_id |-> 1, subscribers |-> 2,
                       posts |-> 1, comments |-> 2])
  /\ CommunityAggregates_read(community_aggregates, 2)
       = Ok([community_id |-> 2, subscribers |-> 1,
             posts |-> 0, comments |-> 0])

\* a community id that was given out and whose community is gone
Removed(c) == c <= serial.community /\ c \notin community

\* C5: once a community has been removed every read of its aggregates fails
\* with diesel's NotFound, which classifies as NOT_FOUND, and never returns
\* counters; whenever a row exists for the id the read succeeds with that
\* row.
C5_ReadFailsOnceRemoved ==
  /\ \A c \in CommunityIds :
       Removed(c) =>
         CommunityAggregates_read(community_aggregates, c) = Err(DieselNotFound)
  /\ \A r \in community_aggregates :
       CommunityAggregates_read(community_aggregates, r.community_id) = Ok(r)
  /\ read_result.tag = "Err" =>
       /\ read_arg \notin community
       /\ read_result.err = DieselNotFound
       /\ \A span \in Spans :
            status_code(From(read_result.err, span)) = NOT_FOUND
  /\ read_result.tag = "Ok" =>
       /\ read_arg \in community
       /\ read_result.row \in community_aggregates
       /\ read_result.row.community_id = read_arg

C5_Witness ==
  /\ Removed(1)
  /\ 2 \in community
  /\ read_arg = 1
  /\ read_result = Err(DieselNotFound)

\* C6: the error type is None only if the LemmyError was built by the
\* blanket conversion and with_type was never applied; from_error_and_type,
\* From<LemmyErrorType> and with_type leave it present, and nothing turns a
\* present error type back into None.
C6_NoneOnlyUnclassified ==
  pc # "idle" =>
    /\ ~err.error_type.some => (built_by.ctor = "from" /\ applied = <<>>)
    /\ built_by.ctor \in {"from_error_and_type", "from_type"} =>
         (orig.error_type.some /\ err.error_type.some)
    /\ applied # <<>> => err.error_type.some
    /\ \A k \in LemmyErrorType : with_type(err, k).error_type.some

C6_Witness ==
  /\ pc = "built"
  /\ built_by.ctor = "from"
  /\ ~orig.error_type.some
  /\ applied = <<Banned>>
  /\ err.error_type = Some(Banned)

\* C7: when the error type is absent the response body is the plain text
\* of the cause's message, not a JSON object, and the status is still the
\* one the not-found check on the cause gives.
C7_UnclassifiedBodyIsCauseText ==
  (pc = "responded" /\ ~err.error_type.some) =>
    /\ response.content_type = "text/plain"
    /\ response.text = built_by.cause.msg
    /\ response.json = <<>>
    /\ response.status = Status(built_by.cause)

C7_Witness ==
  /\ pc = "responded"
  /\ ~err.error_type.some
  /\ built_by.accessor
  /\ response.status = NOT_FOUND
  /\ response.text = DieselNotFound.msg

\* C8: the response depends on the error type and the cause only: the same
\* LemmyError with any other captured context gives the same status and the
\* same body.
C8_ResponseIgnoresContext ==
  /\ pc # "idle" =>
       \A span \in Spans :
         error_response([err EXCEPT !.context = span]) = error_response(err)
  /\ pc = "responded" =>
       \A span \in Spans :
         response = error_response([err EXCEPT !.context = span])

C8_Witness ==
  /\ pc = "responded"
  /\ err.context = MaxSpan
  /\ ~err.error_type.some
  /\ response = error_response([err EXCEPT !.context = 1])

\* C9: From<LemmyErrorType> gives a LemmyError whose error type is the one
\* given, whose context is the one captured in the call, and whose cause is
\* a message error with the Display text of the error type, with or without
\* payload.
C9_FromKindCauseIsDisplay ==
  (pc # "idle" /\ built_by.ctor = "from_type") =>
    /\ orig.error_type = built_by.error_type
    /\ orig.error_type.some
    /\ orig.context = built_by.span
    /\ orig.inner.ty = "anyhow::MessageError"
    /\ orig.inner.msg = Display(built_by.error_type.v)
    /\ err.inner = orig.inner

C9_Witness ==
  /\ pc = "built"
  /\ built_by.ctor = "from_type"
  /\ built_by.error_type = Some(RegistrationDenied(Reason))
  /\ err.inner.msg = <<"R","e","g","i","s","t","r","a","t","i","o","n",
                       "D","e","n","i","e","d">>
  /\ applied = <<>>

\* C10: the status is fixed when the LemmyError is built: after any number
\* of with_type calls it is the status of the LemmyError as built, so a
\* failed accessor read wrapped by the blanket conversion stays NOT_FOUND,
\* and a LemmyError built from an error type stays BAD_REQUEST.
C10_StatusFixedAtConstruction ==
  /\ pc # "idle" =>
       /\ status_code(err) = status_code(orig)
       /\ built_by.accessor => status_code(err) = NOT_FOUND
       /\ built_by.ctor = "from_type" => status_code(err) = BAD_REQUEST
  /\ pc = "responded" => response.status = status_code(orig)

C10_Witness ==
  /\ pc = "responded"
  /\ built_by.accessor
  /\ Len(applied) = MaxWithType
  /\ err.error_type = Some(CouldntFindCommunity)
  /\ response.status = NOT_FOUND

====
